---- MODULE Spec2Model ----
(***************************************************************************)
(* Model of the native provider of native-kubelet:                         *)
(*   - ImageManager.PullImage (image_manager.go): the pull algorithm with   *)
(*     its cache check, the sync.Map of in-flight pulls, the completion     *)
(*     channel and the deferred cleanup, one goroutine per caller;          *)
(*   - ImageManager.UnzipImage (image_manager.go): the layer loop over the  *)
(*     manifest of a cached image;                                          *)
(*   - Provider (cluster.go): CreatePod with its dependency poll, UpdatePod *)
(*     and DeletePod against the down cluster, and the GetPod /             *)
(*     GetPodStatus / GetPods read path over the up-cluster cache and the   *)
(*     down-cluster lister.                                                 *)
(***************************************************************************)
EXTENDS Integers, FiniteSets, Sequences, TLC

\* ------------------------------------------------------------------ bounds
NumCallers == 3     \* PullImage calls of a behaviour, one goroutine each
MaxCreates == 2     \* CreatePod calls of a behaviour
MaxLayers == 3      \* layers of a manifest

\* ------------------------------------------------------------- image side
Callers == 1..NumCallers
ValidRefs == {"docker://a", "docker://b"}
BadRef == "nope"                  \* a name no transport parses
Refs == ValidRefs \cup {BadRef}
NoSession == 0
\* addresses of *ImagePulling objects: a caller holds at most one pointer,
\* the map one per reference, and an unreferenced object is collected
Sessions == 1..(NumCallers + Cardinality(ValidRefs))
NoRecord == <<>>

VARIABLES
    pc,        \* pc[p]: where goroutine p stands in PullImage
    ref,       \* ref[p]: opts.SrcImage of p's call
    sess,      \* sess[p]: the *ImagePulling p created (NoSession if none)
    waitOn,    \* waitOn[p]: the *ImagePulling p loaded from the map
    ret,       \* ret[p]: the error value p's call returns
    imageDb,   \* bitcask store: reference -> destination (NoRecord if absent)
    pulling,   \* sync.Map: reference -> *ImagePulling (NoSession if absent)
    closed,    \* the *ImagePulling still referenced whose ch is closed
    artifact,  \* the destination file of a reference on disk
    copies,    \* cc.Image calls started per reference
    logSinks,  \* pull log files opened per reference
    woke       \* the goroutines a receive on a session's channel let through

pullVars == <<pc, ref, sess, waitOn, ret, imageDb, pulling, closed,
              artifact, copies, logSinks, woke>>

\* --------------------------------------------------------------- pod side
VARIABLES
    downPods,        \* Pod objects of the down cluster (downClientSet)
    upSecrets,       \* Secrets present in the source cluster
    upConfigMaps,    \* ConfigMaps present in the source cluster
    downSecrets,     \* Secrets synced into the down cluster
    downConfigMaps,  \* ConfigMaps synced into the down cluster
    pm,              \* pods handed to processManager.create
    cp,              \* the CreatePod call in progress
    ncreates,        \* CreatePod calls started
    modRet,          \* what the last DeletePod / UpdatePod did and returned
    upPods,          \* up-cluster pod cache (initConfig.ResourceManager)
    downLister,      \* down-cluster pod lister (downPodLister)
    getRet           \* what the last GetPod / GetPodStatus / GetPods returned

podVars == <<downPods, upSecrets, upConfigMaps, downSecrets, downConfigMaps,
             pm, cp, ncreates, modRet>>

readVars == <<upPods, downLister, getRet>>

\* ------------------------------------------------------- extraction side
VARIABLES
    uz,            \* the UnzipImage call: position, image, manifest, result
    containerDir   \* <workdir>/container: path -> the file there

unzipVars == <<uz, containerDir>>

vars == <<pullVars, podVars, readVars, unzipVars>>

\* imageDestDir: docker-archive:<path>/<sanitized name>.tar.gz
imageDestDir(name) == <<"docker-archive", name>>

\* alltransports.ParseImageName succeeds on a name with a known transport
ParseImageName(name) == name \in ValidRefs

\* a cache check that never finds the record
HasNever(db, name) == FALSE

\* m.imageDb.Has
Has(db, name) == db[name] # NoRecord

\* a Put that reports success and persists nothing
PutLost(db, name, dest) == db

\* m.imageDb.Put
Put(db, name, dest) == [db EXCEPT ![name] = dest]

\* m.pulling.LoadOrStore: stores only when the key is absent
LoadOrStore(map, name, s) ==
    IF map[name] = NoSession THEN [map EXCEPT ![name] = s] ELSE map

\* a cleanup that leaves the entry in the map
DeleteKept(map, name) == map

\* m.pulling.Delete: removes whatever entry the key holds
Delete(map, name) == [map EXCEPT ![name] = NoSession]

\* the *ImagePulling objects some pointer still reaches
Referenced(se, w, pl) ==
    ({se[p] : p \in Callers} \cup {w[p] : p \in Callers}
        \cup {pl[r] : r \in ValidRefs}) \ {NoSession}

\* NewImagePulling: a fresh object, at an address nothing references
NewImagePulling ==
    CHOOSE s \in Sessions \ Referenced(sess, waitOn, pulling) :
        \A t \in Sessions \ Referenced(sess, waitOn, pulling) : s <= t

\* a signal in place of a broadcast: one parked goroutine is woken
WokenOne(s) ==
    LET parked == {q \in Callers : pc[q] = "parked" /\ waitOn[q] = s}
    IN  IF parked = {} THEN {} ELSE {CHOOSE q \in parked : TRUE}

\* close(ch) wakes every goroutine parked in a receive on ch
Woken(s) == {q \in Callers : pc[q] = "parked" /\ waitOn[q] = s}

PullInit ==
    /\ pc = [p \in Callers |-> "init"]
    /\ ref = [p \in Callers |-> BadRef]
    /\ sess = [p \in Callers |-> NoSession]
    /\ waitOn = [p \in Callers |-> NoSession]
    /\ ret = [p \in Callers |-> "none"]
    /\ imageDb = [r \in ValidRefs |-> NoRecord]
    /\ pulling = [r \in ValidRefs |-> NoSession]
    /\ closed = {}
    /\ artifact = [r \in ValidRefs |-> "absent"]
    /\ copies = [r \in ValidRefs |-> 0]
    /\ logSinks = [r \in ValidRefs |-> 0]
    /\ woke = {}

\* PullImage entry up to the check label (lines 74-120): parse the name,
\* derive the destination, create the cache directory, set the timeout.
Begin(p, r) ==
    /\ pc[p] = "init"
    /\ ref' = [ref EXCEPT ![p] = r]
    /\ IF ParseImageName(r)
       THEN /\ pc' = [pc EXCEPT ![p] = "check"]
            /\ ret' = ret
       ELSE /\ pc' = [pc EXCEPT ![p] = "done"]
            /\ ret' = [ret EXCEPT ![p] = "ErrParse"]
    /\ UNCHANGED <<sess, waitOn, imageDb, pulling, closed, artifact, copies,
                   logSinks>>
    /\ UNCHANGED woke
    /\ UNCHANGED <<podVars, readVars, unzipVars>>

\* check: (lines 122-128)
Check(p) ==
    /\ pc[p] = "check"
    /\ IF Has(imageDb, ref[p])
       THEN /\ pc' = [pc EXCEPT ![p] = "done"]
            /\ ret' = [ret EXCEPT ![p] = "nil"]
       ELSE /\ pc' = [pc EXCEPT ![p] = "load"]
            /\ ret' = ret
    /\ UNCHANGED <<ref, sess, waitOn, imageDb, pulling, closed, artifact,
                   copies, logSinks>>
    /\ UNCHANGED woke
    /\ UNCHANGED <<podVars, readVars, unzipVars>>

\* v, ok := m.pulling.Load(name) (lines 130-134)
Load(p) ==
    /\ pc[p] = "load"
    /\ IF pulling[ref[p]] # NoSession
       THEN /\ waitOn' = [waitOn EXCEPT ![p] = pulling[ref[p]]]
            /\ pc' = [pc EXCEPT ![p] = "recv"]
       ELSE /\ waitOn' = waitOn
            /\ pc' = [pc EXCEPT ![p] = "store"]
    /\ UNCHANGED <<ref, sess, ret, imageDb, pulling, closed, artifact, copies,
                   logSinks>>
    /\ UNCHANGED woke
    /\ UNCHANGED <<podVars, readVars, unzipVars>>

\* a receive that takes the closing of the channel for a finished pull
RecvTrusting(p) ==
    /\ pc[p] = "recv"
    /\ IF waitOn[p] \in closed
       THEN /\ pc' = [pc EXCEPT ![p] = "done"]
            /\ ret' = [ret EXCEPT ![p] = "nil"]
            /\ waitOn' = [waitOn EXCEPT ![p] = NoSession]
       ELSE /\ pc' = [pc EXCEPT ![p] = "parked"]
            /\ ret' = ret
            /\ waitOn' = waitOn
    /\ closed' = closed \cap Referenced(sess, waitOn', pulling)
    /\ woke' = IF waitOn[p] \in closed THEN woke \cup {p} ELSE woke
    /\ UNCHANGED <<ref, sess, imageDb, pulling, artifact, copies, logSinks>>
    /\ UNCHANGED <<podVars, readVars, unzipVars>>

\* <-pull.ch (line 135): a receive on a closed channel returns at once and
\* control goes back to check; a receive on an open one parks the goroutine
Recv(p) ==
    /\ pc[p] = "recv"
    /\ IF waitOn[p] \in closed
       THEN /\ pc' = [pc EXCEPT ![p] = "check"]
            /\ waitOn' = [waitOn EXCEPT ![p] = NoSession]
       ELSE /\ pc' = [pc EXCEPT ![p] = "parked"]
            /\ waitOn' = waitOn
    /\ closed' = closed \cap Referenced(sess, waitOn', pulling)
    /\ UNCHANGED <<ref, sess, ret, imageDb, pulling, artifact, copies,
                   logSinks>>
    /\ woke' = IF waitOn[p] \in closed THEN woke \cup {p} ELSE woke
    /\ UNCHANGED <<podVars, readVars, unzipVars>>

\* NewImagePulling, m.pulling.LoadOrStore and the two defers (lines
\* 142-145); the value LoadOrStore returns is dropped
Store(p) ==
    /\ pc[p] = "store"
    /\ sess' = [sess EXCEPT ![p] = NewImagePulling]
    /\ pulling' = LoadOrStore(pulling, ref[p], NewImagePulling)
    /\ pc' = [pc EXCEPT ![p] = "remove"]
    /\ UNCHANGED <<ref, waitOn, ret, imageDb, closed, artifact, copies,
                   logSinks>>
    /\ UNCHANGED woke
    /\ UNCHANGED <<podVars, readVars, unzipVars>>

\* err = deleteExistImage(imageDir) (lines 148, 171-179); err is
\* overwritten by the next statement, so a failed removal goes unnoticed
Remove(p) ==
    /\ pc[p] = "remove"
    /\ \E removed \in BOOLEAN :
         artifact' = IF removed THEN [artifact EXCEPT ![ref[p]] = "absent"]
                     ELSE artifact
    /\ pc' = [pc EXCEPT ![p] = "open"]
    /\ UNCHANGED <<ref, sess, waitOn, ret, imageDb, pulling, closed, copies,
                   logSinks>>
    /\ UNCHANGED woke
    /\ UNCHANGED <<podVars, readVars, unzipVars>>

\* os.OpenFile of the pull log (lines 146-155)
Open(p) ==
    /\ pc[p] = "open"
    /\ \E ok \in BOOLEAN :
         IF ok
         THEN /\ logSinks' = [logSinks EXCEPT ![ref[p]] = @ + 1]
              /\ pc' = [pc EXCEPT ![p] = "copy"]
              /\ ret' = ret
         ELSE /\ logSinks' = logSinks
              /\ pc' = [pc EXCEPT ![p] = "delete"]
              /\ ret' = [ret EXCEPT ![p] = "ErrOpen"]
    /\ UNCHANGED <<ref, sess, waitOn, imageDb, pulling, closed, artifact,
                   copies>>
    /\ UNCHANGED woke
    /\ UNCHANGED <<podVars, readVars, unzipVars>>

\* cc.Image starts writing the destination (line 157)
CopyStart(p) ==
    /\ pc[p] = "copy"
    /\ copies' = [copies EXCEPT ![ref[p]] = @ + 1]
    /\ artifact' = [artifact EXCEPT ![ref[p]] = "partial"]
    /\ pc' = [pc EXCEPT ![p] = "copying"]
    /\ UNCHANGED <<ref, sess, waitOn, ret, imageDb, pulling, closed, logSinks>>
    /\ UNCHANGED woke
    /\ UNCHANGED <<podVars, readVars, unzipVars>>

\* cc.Image returns (lines 157-167): the copy ends, or the registry fails,
\* or subCtx's deadline expires
CopyEnd(p) ==
    /\ pc[p] = "copying"
    /\ \E ok \in BOOLEAN :
         IF ok
         THEN /\ artifact' = [artifact EXCEPT ![ref[p]] = "complete"]
              /\ pc' = [pc EXCEPT ![p] = "put"]
              /\ ret' = ret
         ELSE /\ artifact' = artifact
              /\ pc' = [pc EXCEPT ![p] = "delete"]
              /\ ret' = [ret EXCEPT ![p] = "ErrCopy"]
    /\ UNCHANGED <<ref, sess, waitOn, imageDb, pulling, closed, copies,
                   logSinks>>
    /\ UNCHANGED woke
    /\ UNCHANGED <<podVars, readVars, unzipVars>>

\* return m.imageDb.Put(name, dest) (line 168)
PutRecord(p) ==
    /\ pc[p] = "put"
    /\ \E ok \in BOOLEAN :
         IF ok
         THEN /\ imageDb' = Put(imageDb, ref[p], imageDestDir(ref[p]))
              /\ ret' = [ret EXCEPT ![p] = "nil"]
         ELSE /\ imageDb' = imageDb
              /\ ret' = [ret EXCEPT ![p] = "ErrPut"]
    /\ pc' = [pc EXCEPT ![p] = "delete"]
    /\ UNCHANGED <<ref, sess, waitOn, pulling, closed, artifact, copies,
                   logSinks>>
    /\ UNCHANGED woke
    /\ UNCHANGED <<podVars, readVars, unzipVars>>

\* deferred pulling.f.Close() and m.pulling.Delete(name) (lines 145, 155)
DeferDelete(p) ==
    /\ pc[p] = "delete"
    /\ pulling' = Delete(pulling, ref[p])
    /\ pc' = [pc EXCEPT ![p] = "close"]
    /\ UNCHANGED <<ref, sess, waitOn, ret, imageDb, closed, artifact, copies,
                   logSinks>>
    /\ UNCHANGED woke
    /\ UNCHANGED <<podVars, readVars, unzipVars>>

\* deferred close(pulling.ch) (line 144), then the call returns ret[p]
DeferClose(p) ==
    /\ pc[p] = "close"
    /\ pc' = [q \in Callers |->
                IF q = p THEN "done"
                ELSE IF q \in Woken(sess[p]) THEN "check"
                ELSE pc[q]]
    /\ waitOn' = [q \in Callers |->
                    IF q \in Woken(sess[p]) THEN NoSession ELSE waitOn[q]]
    /\ sess' = [sess EXCEPT ![p] = NoSession]
    /\ closed' = (closed \cup {sess[p]}) \cap Referenced(sess', waitOn', pulling)
    /\ UNCHANGED <<ref, ret, imageDb, pulling, artifact, copies, logSinks>>
    /\ woke' = woke \cup Woken(sess[p])
    /\ UNCHANGED <<podVars, readVars, unzipVars>>

Step(p) ==
    \/ Check(p)
    \/ Load(p)
    \/ Recv(p)
    \/ Store(p)
    \/ Remove(p)
    \/ Open(p)
    \/ CopyStart(p)
    \/ CopyEnd(p)
    \/ PutRecord(p)
    \/ DeferDelete(p)
    \/ DeferClose(p)

PullNext ==
    \/ \E p \in Callers, r \in Refs : Begin(p, r)
    \/ \E p \in Callers : Step(p)

\* ------------------------------------------------------- pod side: objects
PodKeys == {"ns/a", "ns/b"}              \* namespace/name
Labels == {"l1", "l2"}
SecretNames == {"s1"}
ConfigMapNames == {"c1"}
Statuses == {"Pending", "Running"}
\* a pod spec, as far as the provider reads it: the objects it references
NodeNames == {"vnode", ""}               \* spec.nodeName; "" is unset
Specs == [secrets : {{}}, configMaps : {{}}, nodeName : NodeNames] \cup
         [secrets : {{"s1"}}, configMaps : {{"c1"}}, nodeName : NodeNames]
Pods(k) == [meta : [key : {k}, labels : Labels], spec : Specs, status : Statuses]
NoPod == [absent |-> TRUE]
NoStatus == "none"
PodStores == {st \in [PodKeys -> UNION {Pods(k) : k \in PodKeys} \cup {NoPod}] :
                 \A k \in PodKeys : st[k] # NoPod => st[k].meta.key = k}

\* the up-cluster cache holds the pods bound to the virtual node
UpPodStores == {st \in PodStores :
                   \A k \in PodKeys : st[k] # NoPod => st[k].spec.nodeName = "vnode"}

\* getSecrets(pod), getConfigMaps(pod): the names the pod's volumes and
\* environment reference
getSecrets(pod) == pod.spec.secrets
getConfigMaps(pod) == pod.spec.configMaps

\* syncSecret / syncConfigMap: what one call may return. An object missing
\* from the source cluster is an error; a present one is written to the down
\* cluster unless the down cluster rejects it.
syncOutcomes(name, source) ==
    IF name \in source THEN {"nil", "ErrSyncDown"} ELSE {"ErrNotFound"}

\* wait.PollImmediateUntil(interval, condition, stopCh) after one evaluation
\* of condition: an error ends the poll with that error, done ends it with
\* nil, otherwise it polls again unless stopCh is closed
PollImmediateUntil(done, err, stopped) ==
    IF err # "nil" THEN err
    ELSE IF done THEN "nil"
    ELSE IF stopped THEN "ErrWaitTimeout"
    ELSE "again"

\* no DeletePod or UpdatePod has returned yet
NoCall == [op |-> "none", key |-> "none", down |-> "none", err |-> "none"]

CpIdle == [pc |-> "idle", pod |-> NoPod, secrets |-> {}, configMaps |-> {},
           timeCtxDone |-> FALSE, err |-> "none", handed |-> FALSE,
           created |-> FALSE]

PodInit ==
    /\ downPods = [k \in PodKeys |-> NoPod]
    /\ upSecrets = {}
    /\ upConfigMaps = {}
    /\ downSecrets = {}
    /\ downConfigMaps = {}
    /\ pm = {}
    /\ cp = CpIdle
    /\ ncreates = 0
    /\ modRet = NoCall

ReadInit ==
    /\ upPods = [k \in PodKeys |-> NoPod]
    /\ downLister = [k \in PodKeys |-> NoPod]
    /\ getRet = [op |-> "none", key |-> "none", pod |-> NoPod,
                 status |-> NoStatus, pods |-> <<>>, err |-> "none"]

\* ------------------------------------------------------ Provider.CreatePod
\* CreatePod entry (lines 67-77): the dependency names and timeCtx
CreateBegin(pod) ==
    /\ cp.pc \in {"idle", "done"}
    /\ ncreates < MaxCreates
    /\ ncreates' = ncreates + 1
    /\ cp' = [CpIdle EXCEPT !.pc = "sync", !.pod = pod,
                            !.secrets = getSecrets(pod),
                            !.configMaps = getConfigMaps(pod)]
    /\ UNCHANGED <<downPods, upSecrets, upConfigMaps, downSecrets,
                   downConfigMaps, pm>>
    /\ UNCHANGED <<pullVars, readVars, modRet, unzipVars>>

\* a poll whose error does not stop CreatePod
AfterConditionLenient(done, err) ==
    [cp EXCEPT !.pc = "handoff", !.secrets = {}, !.configMaps = {}]

\* what the poll does once the condition function has returned (done, err)
\* (lines 78, 92-94): CreatePod goes on, returns the error, or the condition
\* function runs again over the whole dependency set
AfterCondition(done, err) ==
    LET r == PollImmediateUntil(done, err, cp.timeCtxDone)
    IN  IF r = "nil" THEN [cp EXCEPT !.pc = "handoff", !.secrets = {},
                                     !.configMaps = {}]
        ELSE IF r = "again"
        THEN [cp EXCEPT !.secrets = getSecrets(cp.pod),
                        !.configMaps = getConfigMaps(cp.pod)]
        ELSE [cp EXCEPT !.pc = "done", !.err = r]

\* one p.syncSecret call of the condition function (lines 81-85)
SyncSecret(s) ==
    /\ cp.pc = "sync"
    /\ s \in cp.secrets
    /\ \E e \in syncOutcomes(s, upSecrets) :
         /\ downSecrets' = IF e = "nil" THEN downSecrets \cup {s} ELSE downSecrets
         /\ LET left == cp.secrets \ {s} IN
            cp' = IF e = "nil" /\ (left # {} \/ cp.configMaps # {})
                  THEN [cp EXCEPT !.secrets = left]
                  ELSE AfterCondition(e = "nil", e)
    /\ UNCHANGED <<downPods, upSecrets, upConfigMaps, downConfigMaps, pm,
                   ncreates>>
    /\ UNCHANGED <<pullVars, readVars, modRet, unzipVars>>

\* one p.syncConfigMap call of the condition function (lines 86-90)
SyncConfigMap(c) ==
    /\ cp.pc = "sync"
    /\ cp.secrets = {}
    /\ c \in cp.configMaps
    /\ \E e \in syncOutcomes(c, upConfigMaps) :
         /\ downConfigMaps' = IF e = "nil" THEN downConfigMaps \cup {c}
                              ELSE downConfigMaps
         /\ LET left == cp.configMaps \ {c} IN
            cp' = IF e = "nil" /\ left # {}
                  THEN [cp EXCEPT !.configMaps = left]
                  ELSE AfterCondition(e = "nil", e)
    /\ UNCHANGED <<downPods, upSecrets, upConfigMaps, downSecrets, pm,
                   ncreates>>
    /\ UNCHANGED <<pullVars, readVars, modRet, unzipVars>>

\* the condition function of a pod that references nothing (line 91)
SyncNothing ==
    /\ cp.pc = "sync"
    /\ cp.secrets = {} /\ cp.configMaps = {}
    /\ cp' = AfterCondition(TRUE, "nil")
    /\ UNCHANGED <<downPods, upSecrets, upConfigMaps, downSecrets,
                   downConfigMaps, pm, ncreates>>
    /\ UNCHANGED <<pullVars, readVars, modRet, unzipVars>>

\* timeCtx's 10 s pass while the poll is running (line 76); the sync calls
\* run under ctx, not timeCtx, and only the poll reads timeCtx.Done()
DeadlineExpires ==
    /\ cp.pc = "sync"
    /\ ~cp.timeCtxDone
    /\ cp' = [cp EXCEPT !.timeCtxDone = TRUE]
    /\ UNCHANGED <<downPods, upSecrets, upConfigMaps, downSecrets,
                   downConfigMaps, pm, ncreates>>
    /\ UNCHANGED <<pullVars, readVars, modRet, unzipVars>>

\* p.processManager.create(ctx, pod) (line 98)
Handoff ==
    /\ cp.pc = "handoff"
    /\ pm' = pm \cup {cp.pod.meta.key}
    /\ cp' = [cp EXCEPT !.pc = "create", !.handed = TRUE]
    /\ UNCHANGED <<downPods, upSecrets, upConfigMaps, downSecrets,
                   downConfigMaps, ncreates>>
    /\ UNCHANGED <<pullVars, readVars, modRet, unzipVars>>

\* a create that replaces the object the down cluster already holds
CreateDownUpsert ==
    /\ cp.pc = "create"
    /\ cp' = [cp EXCEPT !.pc = "done", !.err = "nil", !.created = TRUE]
    /\ downPods' = [downPods EXCEPT ![cp.pod.meta.key] = cp.pod]
    /\ UNCHANGED <<upSecrets, upConfigMaps, downSecrets, downConfigMaps, pm,
                   ncreates>>
    /\ UNCHANGED <<pullVars, readVars, modRet, unzipVars>>

\* downClientSet...Pods(ns).Create(ctx, pod) and the return (lines 100-105)
CreateDown ==
    /\ cp.pc = "create"
    /\ LET k == cp.pod.meta.key IN
       IF downPods[k] # NoPod
       THEN /\ cp' = [cp EXCEPT !.pc = "done", !.err = "ErrAlreadyExists"]
            /\ downPods' = downPods
       ELSE \E ok \in BOOLEAN :
              IF ok
              THEN /\ cp' = [cp EXCEPT !.pc = "done", !.err = "nil",
                                       !.created = TRUE]
                   /\ downPods' = [downPods EXCEPT ![k] = cp.pod]
              ELSE /\ cp' = [cp EXCEPT !.pc = "done", !.err = "ErrCreateDown"]
                   /\ downPods' = downPods
    /\ UNCHANGED <<upSecrets, upConfigMaps, downSecrets, downConfigMaps, pm,
                   ncreates>>
    /\ UNCHANGED <<pullVars, readVars, modRet, unzipVars>>

\* the source cluster gains a Secret or a ConfigMap
SourceCreates ==
    \/ /\ \E s \in SecretNames \ upSecrets : upSecrets' = upSecrets \cup {s}
       /\ UNCHANGED <<downPods, upConfigMaps, downSecrets, downConfigMaps,
                      pm, cp, ncreates, pullVars, readVars, modRet,
                      unzipVars>>
    \/ /\ \E c \in ConfigMapNames \ upConfigMaps :
            upConfigMaps' = upConfigMaps \cup {c}
       /\ UNCHANGED <<downPods, upSecrets, downSecrets, downConfigMaps, pm,
                      cp, ncreates, pullVars, readVars,
                      modRet, unzipVars>>

\* ------------------------------------------------------ Provider.DeletePod
\* what downClientSet...Pods(ns).Delete may answer: the object is removed, or
\* it is not there, or the down cluster fails the request
deleteOutcomes(k) ==
    IF downPods[k] # NoPod THEN {"nil", "ErrDeleteDown"}
    ELSE {"ErrNotFound", "ErrDeleteDown"}

\* a DeletePod that hands every error of the down cluster to its caller
DeleteResultStrict(down) == down

\* (err != nil && errors2.IsNotFound(err)) || err == nil (lines 130-136)
DeleteResult(down) == IF down \in {"nil", "ErrNotFound"} THEN "nil" ELSE down

\* Provider.DeletePod (lines 123-137)
DeletePod(k) ==
    /\ \E down \in deleteOutcomes(k) :
         /\ downPods' = IF down = "nil" THEN [downPods EXCEPT ![k] = NoPod]
                         ELSE downPods
         /\ modRet' = [op |-> "DeletePod", key |-> k, down |-> down,
                       err |-> DeleteResult(down)]
    /\ UNCHANGED <<upSecrets, upConfigMaps, downSecrets, downConfigMaps, pm,
                   cp, ncreates>>
    /\ UNCHANGED <<pullVars, readVars, unzipVars>>

\* ------------------------------------------------------ Provider.UpdatePod
\* trimPod(pod, nodeName): the pod without its binding to the virtual node
trimPod(pod) == [pod EXCEPT !.spec.nodeName = ""]

\* what downClientSet...Pods(ns).Update may answer: the object is replaced,
\* or it is not there, or the down cluster rejects the update
updateOutcomes(k) ==
    IF downPods[k] # NoPod THEN {"nil", "ErrUpdateDown"} ELSE {"ErrNotFound"}

\* an UpdatePod that hands the down cluster's error to its caller
UpdateResultPassed(down) == down

\* the error is logged and UpdatePod returns nil (lines 116-120)
UpdateResult(down) == "nil"

\* Provider.UpdatePod (lines 108-121); an update of a pod leaves the status
\* the down cluster holds, status being a subresource
UpdatePod(pod) ==
    LET k == pod.meta.key IN
    /\ \E down \in updateOutcomes(k) :
         /\ downPods' = IF down = "nil"
                         THEN [downPods EXCEPT ![k] =
                                  [trimPod(pod) EXCEPT !.status = downPods[k].status]]
                         ELSE downPods
         /\ modRet' = [op |-> "UpdatePod", key |-> k, down |-> down,
                       err |-> UpdateResult(down)]
    /\ UNCHANGED <<upSecrets, upConfigMaps, downSecrets, downConfigMaps, pm,
                   cp, ncreates>>
    /\ UNCHANGED <<pullVars, readVars, unzipVars>>

PodNext ==
    \/ \E k \in PodKeys : \E pod \in Pods(k) : CreateBegin(pod)
    \/ \E s \in SecretNames : SyncSecret(s)
    \/ \E c \in ConfigMapNames : SyncConfigMap(c)
    \/ SyncNothing
    \/ DeadlineExpires
    \/ Handoff
    \/ CreateDown
    \/ SourceCreates
    \/ \E k \in PodKeys : DeletePod(k)

\* ------------------------------------------- Provider.GetPod, GetPodStatus
\* a merge that hands back the down-cluster object
MergeDown(up, down) == down

\* pod.Status = down.Status (line 154)
Merge(up, down) == [up EXCEPT !.status = down.status]

\* a read that falls back to the up-cluster pod when the lister has none
GetPodFallback(up, down) ==
    IF up = NoPod THEN [pod |-> NoPod, err |-> "ErrUpNotFound"]
    ELSE IF down = NoPod THEN [pod |-> up, err |-> "nil"]
    ELSE [pod |-> Merge(up, down), err |-> "nil"]

\* GetPod's two lookups and its result (lines 144-155)
GetPodResult(up, down) ==
    IF up = NoPod THEN [pod |-> NoPod, err |-> "ErrUpNotFound"]
    ELSE IF down = NoPod THEN [pod |-> NoPod, err |-> "ErrDownNotFound"]
    ELSE [pod |-> Merge(up, down), err |-> "nil"]

\* pod is a pointer: when ResourceManager.GetPod hands out the cache's own
\* object, line 154 writes the status into the cache as well
CacheAfterGet(k, r, shared) ==
    IF r.err = "nil" /\ shared
    THEN [upPods EXCEPT ![k] = [upPods[k] EXCEPT !.status = r.pod.status]]
    ELSE upPods

\* Provider.GetPod (lines 139-156)
GetPod(k) ==
    LET r == GetPodResult(upPods[k], downLister[k]) IN
    /\ getRet' = [op |-> "GetPod", key |-> k, pod |-> r.pod,
                  status |-> NoStatus, pods |-> <<>>, err |-> r.err]
    /\ \E shared \in BOOLEAN : upPods' = CacheAfterGet(k, r, shared)
    /\ UNCHANGED downLister
    /\ UNCHANGED <<pullVars, podVars, unzipVars>>

\* Provider.GetPodStatus (lines 158-170)
GetPodStatus(k) ==
    LET r == GetPodResult(upPods[k], downLister[k]) IN
    /\ getRet' = [op |-> "GetPodStatus", key |-> k, pod |-> NoPod,
                  status |-> IF r.err = "nil" THEN r.pod.status ELSE NoStatus,
                  pods |-> <<>>, err |-> r.err]
    /\ \E shared \in BOOLEAN : upPods' = CacheAfterGet(k, r, shared)
    /\ UNCHANGED downLister
    /\ UNCHANGED <<pullVars, podVars, unzipVars>>

\* --------------------------------------------------------- Provider.GetPods
\* downPodLister.List(labels.Everything()): the pods of the lister, in any
\* order, as a sequence of their keys
ListOrders ==
    LET present == {k \in PodKeys : downLister[k] # NoPod}
    IN  {o \in [1..Cardinality(present) -> present] :
            \A i, j \in 1..Cardinality(present) : o[i] = o[j] => i = j}

\* the first iteration whose pod the up-cluster cache lacks (Len + 1 if none)
firstMissing(order) ==
    LET miss == {i \in 1..Len(order) : upPods[order[i]] = NoPod}
    IN  IF miss = {} THEN Len(order) + 1
        ELSE CHOOSE i \in miss : \A j \in miss : i <= j

\* a listing that leaves out the pods the up-cluster cache lacks
GetPodsSkipping(order) ==
    LET kept == SelectSeq(order, LAMBDA k : upPods[k] # NoPod)
    IN  [pods |-> [i \in 1..Len(kept) |-> Merge(upPods[kept[i]], downLister[kept[i]])],
         err |-> "nil"]

\* the loop of GetPods over the list and its result (lines 182-193)
GetPodsResult(order) ==
    IF firstMissing(order) <= Len(order)
    THEN [pods |-> <<>>, err |-> "ErrUpNotFound"]
    ELSE [pods |-> [i \in 1..Len(order) |->
                       Merge(upPods[order[i]], downLister[order[i]])],
          err |-> "nil"]

\* getPod is a pointer (line 190): when ResourceManager.GetPod hands out the
\* cache's own objects, every iteration that ran wrote a status into the cache
CacheAfterList(order, shared) ==
    [k \in PodKeys |->
        IF shared /\ \E i \in 1..Len(order) : i < firstMissing(order) /\ order[i] = k
        THEN [upPods[k] EXCEPT !.status = downLister[k].status]
        ELSE upPods[k]]

\* Provider.GetPods (lines 172-194)
GetPods ==
    /\ \/ /\ getRet' = [op |-> "GetPods", key |-> "none", pod |-> NoPod,
                         status |-> NoStatus, pods |-> <<>>, err |-> "ErrList"]
          /\ upPods' = upPods
       \/ \E order \in ListOrders :
            LET r == GetPodsResult(order) IN
            /\ getRet' = [op |-> "GetPods", key |-> "none", pod |-> NoPod,
                          status |-> NoStatus, pods |-> r.pods, err |-> r.err]
            /\ \E shared \in BOOLEAN : upPods' = CacheAfterList(order, shared)
    /\ UNCHANGED downLister
    /\ UNCHANGED <<pullVars, podVars, unzipVars>>

ReadNext ==
    \/ \E k \in PodKeys : GetPod(k)
    \/ \E k \in PodKeys : GetPodStatus(k)
    \/ GetPods

\* ------------------------------------------------ ImageManager.UnzipImage
Images == {"a", "b"}                     \* the image argument of UnzipImage
Paths == {"bin/app", "etc/conf"}         \* paths inside <workdir>/container
\* images.MediaTypeDockerSchema2LayerGzip
LayerGzip == "application/vnd.docker.image.rootfs.diff.tar.gzip"
MediaTypes == {LayerGzip, "application/vnd.oci.image.layer.v1.tar+zstd"}
\* a layer descriptor and the paths its blob holds; the digest of layer i of
\* a manifest is i, and it is the content the layer gives each of its paths
Layers == [mediaType : MediaTypes, files : SUBSET Paths]
Manifests == UNION {[1..n -> Layers] : n \in 0..MaxLayers}
NoManifest == <<>>
\* what a path of the container directory holds: nothing, a file that was
\* there before the extraction, or the file of the layer with a given digest
NoFile == <<"none", 0>>
OldFile == <<"old", 0>>
LayerFile(digest) == <<"layer", digest>>

\* dockerImageName: the key of an image in the store
dockerImageName(image) == IF image = "a" THEN "docker://a" ELSE "docker://b"

\* UnTar(layer file, container directory): every path of the layer is
\* written, replacing what the directory held there
UnTar(dir, digest, files) ==
    [p \in Paths |-> IF p \in files THEN LayerFile(digest) ELSE dir[p]]

\* a loop over the layers from the last to the first
layerIndexReversed(manifest, it) == Len(manifest) + 1 - it

\* for _, layer := range manifest.Layers (line 264): iteration it takes the
\* layer at index it
layerIndex(manifest, it) == it

UzIdle == [pc |-> "idle", image |-> "none", manifest |-> NoManifest,
           it |-> 0, before |-> [p \in Paths |-> NoFile], err |-> "none"]

UnzipInit ==
    /\ uz = UzIdle
    /\ containerDir = [p \in Paths |-> NoFile]

\* UnzipImage up to the layer loop (lines 195-263): the record of the image
\* is read, the archive unpacked into <workdir>/image, the manifest parsed
UnzipBegin(image, manifest) ==
    /\ uz.pc = "idle"
    /\ \E e \in (IF Has(imageDb, dockerImageName(image))
                  THEN {"nil", "ErrUnpack", "ErrManifest"}
                  ELSE {"ErrKeyNotFound"}) :
         uz' = IF e = "nil"
               THEN [uz EXCEPT !.pc = "layers", !.image = image,
                               !.manifest = manifest, !.it = 1,
                               !.before = containerDir]
               ELSE [uz EXCEPT !.pc = "done", !.image = image, !.err = e,
                               !.before = containerDir]
    /\ UNCHANGED containerDir
    /\ UNCHANGED <<pullVars, podVars, readVars>>

\* one iteration of the layer loop (lines 264-278)
ExtractLayer ==
    /\ uz.pc = "layers"
    /\ uz.it <= Len(uz.manifest)
    /\ LET i == layerIndex(uz.manifest, uz.it)
           layer == uz.manifest[i]
       IN  IF layer.mediaType = LayerGzip
           THEN \/ /\ containerDir' = UnTar(containerDir, i, layer.files)
                   /\ uz' = [uz EXCEPT !.it = @ + 1]
                \/ \E written \in SUBSET layer.files :
                     /\ containerDir' = UnTar(containerDir, i, written)
                     /\ uz' = [uz EXCEPT !.pc = "done", !.err = "ErrUnTar"]
           ELSE /\ uz' = [uz EXCEPT !.pc = "done", !.err = "ErrUnsupported"]
                /\ containerDir' = containerDir
    /\ UNCHANGED <<pullVars, podVars, readVars>>

\* the loop is over (line 280)
UnzipReturn ==
    /\ uz.pc = "layers"
    /\ uz.it > Len(uz.manifest)
    /\ uz' = [uz EXCEPT !.pc = "done", !.err = "nil"]
    /\ UNCHANGED containerDir
    /\ UNCHANGED <<pullVars, podVars, readVars>>

UnzipNext ==
    \/ \E image \in Images, manifest \in Manifests : UnzipBegin(image, manifest)
    \/ ExtractLayer
    \/ UnzipReturn

\* ---------------------------------------------------------- specifications
Init == PullInit /\ PodInit /\ ReadInit /\ UnzipInit

Next == PullNext

\* the image manager under concurrent PullImage calls
Spec == Init /\ [][Next]_vars

\* The callers of one reference under the Go scheduler: every goroutine that
\* can run does run, and a started cc.Image returns (subCtx has a deadline).
LiveRefs == {"docker://a"}

FairNext ==
    \/ \E p \in Callers, r \in LiveRefs : Begin(p, r)
    \/ \E p \in Callers : Step(p)

FairSpec == Init /\ [][FairNext]_vars /\ \A p \in Callers : WF_vars(Step(p))

\* CreatePod against the source and the down cluster
PodSpec == Init /\ [][PodNext]_vars

\* the read path over any content of the two caches
CachesInit ==
    /\ PullInit /\ PodInit /\ UnzipInit
    /\ upPods \in UpPodStores
    /\ downLister \in PodStores
    /\ getRet = [op |-> "none", key |-> "none", pod |-> NoPod,
                 status |-> NoStatus, pods |-> <<>>, err |-> "none"]

ReadSpec == CachesInit /\ [][ReadNext]_vars

\* extraction of an image into a work directory that may hold files already,
\* over any content of the store
RecordsInit ==
    /\ pc = [p \in Callers |-> "init"]
    /\ ref = [p \in Callers |-> BadRef]
    /\ sess = [p \in Callers |-> NoSession]
    /\ waitOn = [p \in Callers |-> NoSession]
    /\ ret = [p \in Callers |-> "none"]
    /\ \E cached \in SUBSET ValidRefs :
         /\ imageDb = [r \in ValidRefs |->
                         IF r \in cached THEN imageDestDir(r) ELSE NoRecord]
         /\ artifact = [r \in ValidRefs |->
                          IF r \in cached THEN "complete" ELSE "absent"]
    /\ pulling = [r \in ValidRefs |-> NoSession]
    /\ closed = {}
    /\ copies = [r \in ValidRefs |-> 0]
    /\ logSinks = [r \in ValidRefs |-> 0]
    /\ woke = {}
    /\ PodInit /\ ReadInit
    /\ uz = UzIdle
    /\ containerDir \in [Paths -> {NoFile, OldFile}]

UnzipSpec == RecordsInit /\ [][UnzipNext]_vars

\* UpdatePod and DeletePod against a down cluster holding any pods
MirrorInit ==
    /\ PullInit /\ ReadInit /\ UnzipInit
    /\ downPods \in PodStores
    /\ upSecrets = {}
    /\ upConfigMaps = {}
    /\ downSecrets = {}
    /\ downConfigMaps = {}
    /\ pm = {}
    /\ cp = CpIdle
    /\ ncreates = 0
    /\ modRet = NoCall

MirrorNext ==
    \/ \E k \in PodKeys : \E pod \in Pods(k) : UpdatePod(pod)
    \/ \E k \in PodKeys : DeletePod(k)

MirrorSpec == MirrorInit /\ [][MirrorNext]_vars

TypeOK ==
    /\ pc \in [Callers -> {"init", "done", "check", "load", "recv", "parked", "store",
                           "remove", "open", "copy", "copying", "put",
                           "delete", "close"}]
    /\ ref \in [Callers -> Refs]
    /\ pulling \in [ValidRefs -> Sessions \cup {NoSession}]
    /\ closed \subseteq Sessions

\* ------------------------------------------------------ claims, image side
Cached(r) == imageDb[r] # NoRecord
Returned(p) == pc[p] = "done"
NoFailure == \A p \in Callers : ret[p] \in {"none", "nil"}
Copying(r) == {p \in Callers : pc[p] = "copying" /\ ref[p] = r}

\* C1: concurrent PullImage calls for one uncached reference, none of which
\* fails, perform exactly one network copy and open exactly one log sink.
C1_OneCopyPerReference ==
    \A r \in ValidRefs :
        NoFailure => copies[r] <= 1 /\ logSinks[r] <= 1

\* C2: at most one PullImage call is executing the network copy for a given
\* reference at any time.
C2_AtMostOneCopying ==
    \A r \in ValidRefs : Cardinality(Copying(r)) <= 1

\* C3: a PullImage call that returned nil leaves an ImageRecord for its
\* reference in the store, and a record once written is never removed or
\* changed.
C3_RecordOnSuccess ==
    [][ /\ \A p \in Callers :
             (pc'[p] = "done" /\ ret'[p] = "nil") => imageDb'[ref'[p]] # NoRecord
        /\ \A r \in ValidRefs : Cached(r) => imageDb'[r] = imageDb[r]
      ]_vars

C3_Witness ==
    \E p, q \in Callers :
        /\ p # q
        /\ Returned(p) /\ Returned(q)
        /\ ret[p] = "nil" /\ ret[q] = "nil"
        /\ ref[p] = ref[q]
        /\ copies[ref[p]] = 1
        /\ imageDb[ref[p]] = imageDestDir(ref[p])

\* C4: a call whose log-sink open or network copy fails writes no record
\* (records are written only by the Put of a call that returns nil), leaves
\* no entry of its own in the session map, and a call running while every
\* other call has returned or not begun meets no session, is never parked,
\* and returns an error only from its own open, copy or put.
C4_FailedPullLeavesNothing ==
    [][ /\ imageDb' # imageDb =>
             \E p \in Callers :
                 pc[p] = "put" /\ pc'[p] = "delete" /\ ret'[p] = "nil"
        /\ \A p \in Callers :
             /\ pc'[p] = "done" => sess'[p] = NoSession
             /\ ret'[p] \in {"ErrOpen", "ErrCopy"} =>
                    /\ ret[p] \in {"none", ret'[p]}
                    /\ ret[p] = "none" => pc[p] \in {"open", "copying"}
             /\ (\A q \in Callers \ {p} : pc'[q] \in {"init", "done"}) =>
                    /\ pc'[p] # "parked"
                    /\ pc'[p] = "load" => pulling'[ref'[p]] = NoSession
        /\ \A r \in ValidRefs :
             pulling'[r] # NoSession =>
                 /\ pulling'[r] \notin closed'
                 /\ \E q \in Callers : sess'[q] = pulling'[r] /\ ref'[q] = r
      ]_vars

C4_Witness ==
    \E p, q \in Callers :
        /\ p # q
        /\ Returned(p) /\ ret[p] \in {"ErrOpen", "ErrCopy"}
        /\ ref[q] = ref[p]
        /\ pc[q] = "copying"
        /\ copies[ref[p]] = 2
        /\ ~Cached(ref[p])
        /\ \A o \in Callers \ {q} : pc[o] \in {"init", "done"}

\* C5: a call that finds the record of its reference at the cache check
\* returns nil at once and changes neither the store, the session map, the
\* destination artifact nor the copy and log-sink counts; entering the call
\* changes none of them either.
C5_CacheHit ==
    [][ \A p \in Callers :
           /\ (pc[p] = "check" /\ Cached(ref[p]) /\ pc'[p] # "check") =>
                  /\ pc'[p] = "done" /\ ret'[p] = "nil"
                  /\ UNCHANGED <<imageDb, pulling, sess, artifact, copies,
                                 logSinks>>
           /\ (pc[p] = "init" /\ pc'[p] # "init") =>
                  UNCHANGED <<imageDb, pulling, sess, artifact, copies,
                              logSinks>>
      ]_vars

C5_Witness ==
    /\ \A p \in Callers : Returned(p) /\ ret[p] = "nil"
    /\ \E r \in ValidRefs :
        /\ \A p \in Callers : ref[p] = r
        /\ copies[r] = 1
        /\ artifact[r] = "complete"

\* C6: every goroutine parked on a session's channel is eventually released,
\* whatever the outcome of the pull that owns the session, and the goroutines
\* parked on one channel are released in the same step.
C6_WaitersReleased ==
    /\ \A p \in Callers : (pc[p] = "parked") ~> (pc[p] # "parked")
    /\ [][ \A p, q \in Callers :
              (/\ pc[p] = "parked" /\ pc[q] = "parked"
               /\ waitOn[p] = waitOn[q]
               /\ pc'[p] # "parked") => pc'[q] # "parked"
         ]_vars

C6_Witness ==
    \E o, p, q \in Callers :
        /\ p # q
        /\ pc[o] = "close" /\ ret[o] = "ErrCopy"
        /\ pc[p] = "parked" /\ pc[q] = "parked"
        /\ waitOn[p] = sess[o] /\ waitOn[q] = sess[o]

\* -------------------------------------------------------- claims, pod side
\* C7: when a dependency sync failed, or the deadline passed before the sync
\* was complete, CreatePod hands nothing to the Process Manager, creates no
\* down-cluster pod and returns an error.
C7_NoPodUnlessSyncedInTime ==
    (\/ cp.err \in {"ErrNotFound", "ErrSyncDown"}
     \/ cp.timeCtxDone /\ getSecrets(cp.pod) \cup getConfigMaps(cp.pod) # {}) =>
        /\ ~cp.handed
        /\ ~cp.created
        /\ cp.pc = "done" => cp.err \notin {"none", "nil"}

\* C8: a sync attempt that fails because the object is not yet in the source
\* cluster does not end CreatePod; CreatePod fails in the sync phase only
\* once the deadline has passed.
C8_NotFoundRetriedUntilDeadline ==
    (cp.pc = "done" /\ cp.err \in {"ErrNotFound", "ErrSyncDown", "ErrWaitTimeout"})
        => cp.timeCtxDone

\* C9: for a pod in both the up-cluster cache and the down-cluster lister,
\* GetPod returns the up-cluster metadata and spec with the down-cluster
\* status, whatever the up-cluster status and the down-cluster spec are.
C9_StatusOnlyMerge ==
    [][ \A k \in PodKeys :
           (/\ getRet'.op = "GetPod" /\ getRet'.key = k
            /\ upPods[k] # NoPod /\ downLister[k] # NoPod) =>
               /\ getRet'.err = "nil"
               /\ getRet'.pod # NoPod
               /\ getRet'.pod.meta = upPods[k].meta
               /\ getRet'.pod.spec = upPods[k].spec
               /\ getRet'.pod.status = downLister[k].status
      ]_vars

C9_Witness ==
    /\ getRet.op = "GetPod" /\ getRet.err = "nil"
    /\ downLister[getRet.key] # NoPod /\ upPods[getRet.key] # NoPod
    /\ downLister[getRet.key].spec # getRet.pod.spec
    /\ downLister[getRet.key].meta # getRet.pod.meta
    /\ upPods[getRet.key].status # getRet.pod.status
    /\ getRet.pod.status = downLister[getRet.key].status

\* C10: for a pod in the up-cluster cache with no counterpart in the
\* down-cluster lister, GetPod and GetPodStatus return an error and neither
\* a pod nor a status.
C10_MissingDownIsError ==
    [][ \A k \in PodKeys :
           (/\ getRet'.op \in {"GetPod", "GetPodStatus"} /\ getRet'.key = k
            /\ upPods[k] # NoPod /\ downLister[k] = NoPod) =>
               /\ getRet'.err \notin {"nil", "none"}
               /\ getRet'.pod = NoPod
               /\ getRet'.status = NoStatus
      ]_vars

C10_Witness ==
    /\ getRet.op = "GetPodStatus"
    /\ getRet.err = "ErrDownNotFound"
    /\ upPods[getRet.key] # NoPod
    /\ downLister[getRet.key] = NoPod
    /\ getRet.status = NoStatus

\* C11: a DeletePod whose pod is absent from the down cluster returns nil and
\* leaves the down cluster as it is, also right after a DeletePod of the same
\* pod that returned nil; a DeletePod that removes the pod returns nil; a
\* failure of the down cluster other than not-found is returned as it is.
C11_DeleteIdempotent ==
    [][ \A k \in PodKeys :
           (/\ modRet' # modRet \/ (downPods' # downPods /\ cp' = cp)
            /\ modRet'.op = "DeletePod" /\ modRet'.key = k) =>
               /\ (downPods[k] = NoPod /\ modRet'.down = "ErrNotFound") =>
                      modRet'.err = "nil" /\ downPods' = downPods
               /\ (modRet.op = "DeletePod" /\ modRet.key = k /\ modRet.err = "nil"
                   /\ modRet'.down = "ErrNotFound") =>
                      modRet'.err = "nil" /\ downPods' = downPods
               /\ modRet'.down = "nil" =>
                      modRet'.err = "nil" /\ downPods'[k] = NoPod
               /\ modRet'.down = "ErrDeleteDown" =>
                      modRet'.err = "ErrDeleteDown" /\ downPods' = downPods
      ]_vars

C11_Witness ==
    /\ modRet.op = "DeletePod"
    /\ modRet.down = "ErrNotFound"
    /\ modRet.err = "nil"
    /\ cp.created /\ cp.pc = "done"
    /\ cp.pod.meta.key = modRet.key
    /\ downPods[modRet.key] = NoPod

\* C12: a CreatePod whose pod already exists in the down cluster when the
\* create is issued returns the already-exists error and leaves the existing
\* object as it is; the error is only returned once the dependencies are
\* synced and the pod is handed off, and nothing counts as created.
C12_AlreadyExists ==
    [][ /\ (/\ cp.pc = "create" /\ cp'.pc = "done"
            /\ downPods[cp.pod.meta.key] # NoPod) =>
               /\ cp'.err = "ErrAlreadyExists"
               /\ downPods' = downPods
               /\ ~cp'.created
        /\ (cp'.err = "ErrAlreadyExists" /\ cp.err # "ErrAlreadyExists") =>
               /\ cp.pc = "create" /\ cp.handed
               /\ getSecrets(cp.pod) \subseteq downSecrets
               /\ getConfigMaps(cp.pod) \subseteq downConfigMaps
      ]_vars

C12_Witness ==
    /\ cp.pc = "done"
    /\ cp.err = "ErrAlreadyExists"
    /\ getSecrets(cp.pod) # {}
    /\ downPods[cp.pod.meta.key] # NoPod
    /\ downPods[cp.pod.meta.key] # cp.pod

\* ------------------------------------------------- claims, extraction side
\* the layers of the manifest in progress that hold path p, among the first n
Writers(p, n) == {i \in 1..n : p \in uz.manifest[i].files}
Last(S) == CHOOSE i \in S : \A j \in S : j <= i

\* C13: the layers are applied in manifest order: while the loop runs and
\* when UnzipImage returns nil, every path holds the file of the last layer,
\* in manifest order among the layers applied so far, that holds the path,
\* and a path no applied layer holds is as it was before the extraction.
C13_LastLayerWins ==
    (uz.pc = "layers" \/ (uz.pc = "done" /\ uz.err = "nil")) =>
        \A p \in Paths :
            LET applied == IF uz.pc = "done" THEN Len(uz.manifest) ELSE uz.it - 1
            IN  IF Writers(p, applied) = {}
                THEN containerDir[p] = uz.before[p]
                ELSE containerDir[p] = LayerFile(Last(Writers(p, applied)))

C13_Witness ==
    /\ uz.pc = "done" /\ uz.err = "nil"
    /\ Len(uz.manifest) = MaxLayers
    /\ \E p, q \in Paths :
         /\ Writers(p, MaxLayers) = {1, 2}
         /\ containerDir[p] = LayerFile(2)
         /\ Writers(q, MaxLayers) = {1}
         /\ containerDir[q] = LayerFile(1)
         /\ uz.before[p] = OldFile

\* C14: an extraction that ends on a layer of an unsupported media type
\* returns an error and leaves the container directory as it was before the
\* extraction: no file of any layer of the image is in it.
C14_UnsupportedNonPartial ==
    (uz.pc = "done" /\ Len(uz.manifest) > 0
     /\ \E i \in 1..Len(uz.manifest) : uz.manifest[i].mediaType # LayerGzip
     /\ uz.err \notin {"ErrUnTar"}) =>
        /\ uz.err = "ErrUnsupported"
        /\ containerDir = uz.before

\* ------------------------------------------------ claims, image side (2)
\* C15: a goroutine released from a wait goes back to the cache check with
\* no result of its own; it returns nil only with a record of its reference
\* in the store; without one it loads the session map again and either waits
\* on the session now there, which is still open, or starts its own pull;
\* and an error it returns comes from its own parse, open, copy or put.
C15_WaiterRechecks ==
    [][ \A p \in Callers :
           /\ (pc[p] \in {"recv", "parked"} /\ pc'[p] \notin {"recv", "parked"}) =>
                  /\ pc'[p] = "check"
                  /\ ret'[p] = "none"
                  /\ p \in woke'
           /\ (p \in woke /\ pc[p] = "check" /\ pc'[p] # "check") =>
                  IF Cached(ref[p])
                  THEN pc'[p] = "done" /\ ret'[p] = "nil"
                  ELSE pc'[p] = "load" /\ ret'[p] = "none"
           /\ (p \in woke /\ pc[p] = "load" /\ pc'[p] # "load") =>
                  \/ /\ pc'[p] = "recv"
                     /\ waitOn'[p] = pulling[ref[p]]
                     /\ waitOn'[p] \notin closed
                     /\ \E o \in Callers \ {p} : sess[o] = waitOn'[p]
                  \/ pc'[p] = "store"
           /\ (p \in woke' /\ pc'[p] = "done" /\ ret'[p] = "nil") =>
                  Cached(ref[p])'
           /\ (p \in woke' /\ ret'[p] # ret[p] /\ ret'[p] # "nil") =>
                  \/ pc[p] = "open" /\ ret'[p] = "ErrOpen"
                  \/ pc[p] = "copying" /\ ret'[p] = "ErrCopy"
                  \/ pc[p] = "put" /\ ret'[p] = "ErrPut"
      ]_vars

C15_Witness ==
    \E o, p, q \in Callers :
        /\ Returned(o) /\ ret[o] = "ErrCopy"
        /\ p \in woke /\ q \in woke /\ p # q
        /\ ref[p] = ref[o] /\ ref[q] = ref[o]
        /\ Returned(p) /\ ret[p] = "nil"
        /\ Returned(q) /\ ret[q] = "nil"
        /\ copies[ref[o]] = 2
        /\ Cached(ref[o])

\* the calls for r that created a session and have not begun their cleanup
Pulling(r) == {p \in Callers : ref[p] = r /\ pc[p] \in {"remove", "open", "copy",
                                                       "copying", "put"}}
\* the calls for r that created a session and have not returned
Unfinished(r) == {p \in Callers : ref[p] = r /\ sess[p] # NoSession}

\* C16: the session map holds an entry for a reference exactly while a pull
\* of that reference runs: a call that created its session and has not begun
\* its deferred cleanup finds the entry in place, and an entry is an open
\* session of a call that has not returned.
C16_EntryIffPullRunning ==
    \A r \in ValidRefs :
        /\ Pulling(r) # {} => pulling[r] # NoSession
        /\ pulling[r] # NoSession =>
               /\ Unfinished(r) # {}
               /\ pulling[r] \notin closed

\* C18: the destination artifact of a reference that has a record in the
\* store is a completely written archive: nothing removed it or began to
\* write it again since the copy that preceded the record.
C18_RecordedArtifactComplete ==
    \A r \in ValidRefs : Cached(r) => artifact[r] = "complete"

\* ------------------------------------------------- claims, pod side (2)
\* C17: CreatePod hands the pod to the Process Manager only once every
\* dependency of the pod is synced into the down cluster, and before it
\* issues the down-cluster create; the create, whatever it returns, leaves
\* the Process Manager holding the pod.
C17_SyncHandoffCreate ==
    [][ /\ pm' # pm =>
               /\ cp.pc = "handoff" /\ cp'.pc = "create"
               /\ pm' = pm \cup {cp.pod.meta.key}
               /\ getSecrets(cp.pod) \subseteq downSecrets
               /\ getConfigMaps(cp.pod) \subseteq downConfigMaps
               /\ ~cp.created
        /\ (cp.pc = "create" /\ cp'.pc # "create") =>
               /\ cp.handed /\ cp'.handed
               /\ cp.pod.meta.key \in pm'
               /\ cp'.pc = "done"
        /\ (cp'.pc = "create" /\ cp.pc # "create") => cp.pc = "handoff"
        /\ (cp'.pc = "handoff" /\ cp.pc # "handoff") =>
               cp.pc = "sync" /\ ~cp.handed
      ]_vars

C17_Witness ==
    /\ cp.pc = "done"
    /\ cp.err = "ErrCreateDown"
    /\ cp.handed
    /\ getSecrets(cp.pod) # {} /\ getConfigMaps(cp.pod) # {}
    /\ cp.pod.meta.key \in pm
    /\ downPods[cp.pod.meta.key] = NoPod
    /\ modRet = NoCall
    /\ ncreates = 1

\* C19: UpdatePod returns nil whatever the down cluster answers; an update
\* the down cluster accepts stores the pod without its node binding, and a
\* rejected one, of a pod the down cluster lacks or otherwise, leaves the
\* down cluster as it is.
C19_UpdateAlwaysNil ==
    [][ \A k \in PodKeys :
           (/\ modRet' # modRet \/ (downPods' # downPods /\ cp' = cp)
            /\ modRet'.op = "UpdatePod" /\ modRet'.key = k) =>
               /\ modRet'.err = "nil"
               /\ downPods[k] = NoPod => modRet'.down = "ErrNotFound"
               /\ modRet'.down # "nil" => downPods' = downPods
               /\ modRet'.down = "nil" =>
                      /\ downPods'[k] # NoPod
                      /\ downPods'[k].spec.nodeName = ""
                      /\ downPods'[k].status = downPods[k].status
                      /\ \A j \in PodKeys \ {k} : downPods'[j] = downPods[j]
      ]_vars

C19_Witness ==
    /\ modRet.op = "UpdatePod"
    /\ modRet.down = "ErrUpdateDown"
    /\ modRet.err = "nil"
    /\ downPods[modRet.key] # NoPod
    /\ downPods[modRet.key].spec.nodeName = "vnode"

\* ------------------------------------------------ claims, read path (2)
\* C20: GetPods goes over the down-cluster lister: when every pod of the
\* lister is in the up-cluster cache and the listing succeeds, it returns one
\* pod per pod of the lister and no other, each with the up-cluster metadata
\* and spec and the lister's status; when a pod of the lister is missing from
\* the up-cluster cache it returns an error and no pod.
C20_GetPodsOverDownLister ==
    [][ getRet'.op = "GetPods" =>
           LET down == {k \in PodKeys : downLister[k] # NoPod}
               pods == getRet'.pods
           IN  IF \E k \in down : upPods[k] = NoPod
               THEN getRet'.err \notin {"nil", "none"} /\ pods = <<>>
               ELSE /\ getRet'.err \in {"nil", "ErrList"}
                    /\ getRet'.err = "ErrList" => pods = <<>>
                    /\ getRet'.err = "nil" =>
                          /\ Len(pods) = Cardinality(down)
                          /\ \A k \in down : \E i \in 1..Len(pods) :
                                /\ pods[i].meta = upPods[k].meta
                                /\ pods[i].spec = upPods[k].spec
                                /\ pods[i].status = downLister[k].status
      ]_vars

C20_Witness ==
    /\ getRet.op = "GetPods" /\ getRet.err = "nil"
    /\ Len(getRet.pods) = 1
    /\ \E k, j \in PodKeys :
         /\ getRet.pods[1].meta.key = k
         /\ upPods[j] # NoPod /\ downLister[j] = NoPod
         /\ downLister[k].spec # getRet.pods[1].spec
         /\ upPods[k].status # getRet.pods[1].status

====
